---- MODULE Spec2Model ----
(***************************************************************************)
(* Model of dash_pydantic_form/fields/model_field.py: the ModelField       *)
(* configuration (construction, validation, post-init), its three render   *)
(* variants with the _render dispatch, and the two clientside callbacks    *)
(* that open and close the modal of the modal variant.                     *)
(*                                                                         *)
(* Python values are tagged records [type, layout, arg] so that values of  *)
(* different Python types can be compared.  A call returns Ok(value) or    *)
(* Raise(exception, message).                                              *)
(*                                                                         *)
(* accordion_item is defective in two ways: lines 200-201 do not compile   *)
(* (the docstring has 9 leading spaces, the next line 8: IndentationError, *)
(* which as the file stands stops the import of the whole module), and the *)
(* file imports neither fac nor uuid (NameError at line 206 once line 200  *)
(* is re-indented).  The variable build says which of these readings of    *)
(* accordion_item a behaviour runs: the file as it stands, line 200        *)
(* re-indented, or the body as written with fac and uuid bound.  The rest  *)
(* of the file is read as written in every build.                          *)
(***************************************************************************)
EXTENDS Integers, Sequences, FiniteSets, TLC

VARIABLES
    init_call,    \* a ModelField(**kwargs) call: its kwargs and its outcome
    model_field,  \* the field configuration object the render calls are made on
    prev,         \* the render call before the latest one
    last,         \* the latest _render call: self, arguments, outcome
    page,         \* the modal variants rendered into the page, one per tuple
    dom,          \* the client's state of the page: component id -> props
    event,        \* the latest click the client handled
    build         \* the reading of accordion_item (lines 190-250) that runs

vars == <<init_call, model_field, prev, last, page, dom, event, build>>

-----------------------------------------------------------------------------
(* Python values *)

None == [type |-> "NoneType", layout |-> "", arg |-> ""]
\* a keyword argument that the caller did not pass
Absent == [type |-> "absent", layout |-> "", arg |-> ""]

Str(s) == [type |-> "str", layout |-> "", arg |-> s]
\* bool(v) of a string or None
bool(v) == v # None /\ v # Str("")

\* the empty mapping {}
EmptyDict == [type |-> "dict", layout |-> "", arg |-> ""]

LayoutKinds == {"accordion", "tabs"}
LayoutArgs == {"s1", "s2"}

\* FormLayout instances
FormLayouts == [type : {"FormLayout"}, layout : LayoutKinds, arg : LayoutArgs]
\* raw mappings {"layout": ..., "sections": ...}
LayoutDicts == [type : {"dict"}, layout : LayoutKinds, arg : LayoutArgs]
\* values of any other type
OtherValues == {[type |-> "str", layout |-> "", arg |-> "grid"],
                [type |-> "list", layout |-> "", arg |-> "s1"]}

isinstance(v, t) == v.type = t

\* FormLayout.load(**v): the layout object described by the mapping v
FormLayout_load(v) == [type |-> "FormLayout", layout |-> v.layout, arg |-> v.arg]

\* the extra keyword arguments kept by the model: the keys present and their values
truthy(d) == d.keys # {}
dict_get(d, k) == IF k \in d.keys THEN d[k] ELSE None

Ok(v) == [status |-> "ok", value |-> v, exc |-> "", msg |-> <<>>]
Raise(e, m) == [status |-> "error", value |-> None, exc |-> e, msg |-> m]

-----------------------------------------------------------------------------
(* Construction *)

DefaultFormCols == 4
\* the marker of a string keyword argument that was not passed (0 for form_cols)
NotPassed == "<not passed>"
RenderTypes == {"accordion", "modal", "simple"}

\* a validator that hands a raw mapping on without loading it
validate_form_layout_NoLoad(v) ==
    IF isinstance(v, "FormLayout") \/ v = None \/ isinstance(v, "dict") THEN Ok(v)
    ELSE Raise("ValueError",
               <<"form_layout must be a FormLayout or a dict that can be converted to a FormLayout">>)

\* a validator that accepts every input type
validate_form_layout_NoRaise(v) ==
    IF isinstance(v, "dict") THEN Ok(FormLayout_load(v)) ELSE Ok(v)

validate_form_layout(v) ==
    IF isinstance(v, "FormLayout") \/ v = None THEN Ok(v)
    ELSE IF isinstance(v, "dict") THEN Ok(FormLayout_load(v))
    ELSE Raise("ValueError",
               <<"form_layout must be a FormLayout or a dict that can be converted to a FormLayout">>)

\* the sections shim replacing a layout that was supplied
model_post_init_Always(obj) ==
    LET o1 == IF obj.fields_repr = None
              THEN [obj EXCEPT !.fields_repr = EmptyDict]
              ELSE obj
    IN IF truthy(o1.model_extra) /\ dict_get(o1.model_extra, "sections") # None
       THEN [o1 EXCEPT !.form_layout = dict_get(o1.model_extra, "sections")]
       ELSE o1

model_post_init(obj) ==
    LET o1 == IF obj.fields_repr = None
              THEN [obj EXCEPT !.fields_repr = EmptyDict]
              ELSE obj
    IN IF o1.form_layout = None
          /\ truthy(o1.model_extra)
          /\ dict_get(o1.model_extra, "sections") # None
       THEN [o1 EXCEPT !.form_layout = dict_get(o1.model_extra, "sections")]
       ELSE o1

\* the declared fields with their defaults; kw holds Absent for what was not passed
FieldDefaults(kw) ==
    [render_type     |-> IF kw.render_type = NotPassed THEN "accordion" ELSE kw.render_type,
     fields_repr     |-> IF kw.fields_repr = Absent
                         THEN EmptyDict
                         ELSE kw.fields_repr,
     form_layout     |-> None,
     form_cols       |-> IF kw.form_cols = 0 THEN DefaultFormCols ELSE kw.form_cols,
     excluded_fields |-> IF kw.excluded_fields = Absent THEN None ELSE kw.excluded_fields,
     fields_order    |-> IF kw.fields_order = Absent THEN None ELSE kw.fields_order,
     read_only       |-> kw.read_only,
     model_extra     |-> IF kw.sections = Absent
                         THEN [keys |-> {}, sections |-> None]
                         ELSE [keys |-> {"sections"}, sections |-> kw.sections]]

\* ModelField(**kw): every field is validated and the errors of all of them are raised
\* as one ValidationError (its message: location and text of each error, in the order of
\* the fields); then model_post_init
ModelField(kw) ==
    LET fl == IF kw.form_layout = Absent THEN Ok(None) ELSE validate_form_layout(kw.form_layout)
        render_type_errors ==
            IF kw.render_type # NotPassed /\ kw.render_type \notin RenderTypes
            THEN <<"render_type", "Input should be 'accordion', 'modal' or 'simple'">>
            ELSE <<>>
        form_layout_errors ==
            IF fl.status = "error" THEN <<"form_layout", "Value error, " \o fl.msg[1]>> ELSE <<>>
        errors == render_type_errors \o form_layout_errors
    IN IF errors # <<>>
       THEN Raise("ValidationError", errors)
       ELSE Ok(model_post_init([FieldDefaults(kw) EXCEPT !.form_layout = fl.value]))

-----------------------------------------------------------------------------
(* Identifiers *)

\* common_ids.field_dependent_id(component, aio_id, form_id, field, parent="", meta="")
field_dependent_id(component, aio_id, form_id, field, parent, meta) ==
    [component |-> component, aio_id |-> aio_id, form_id |-> form_id,
     field |-> field, parent |-> parent, meta |-> meta]

\* class ids: the three partials of field_dependent_id
ids_edit(aio_id, form_id, field, parent, meta) ==
    field_dependent_id("_pydf-model-field-edit", aio_id, form_id, field, parent, meta)
ids_modal(aio_id, form_id, field, parent, meta) ==
    field_dependent_id("_pydf-model-field-modal", aio_id, form_id, field, parent, meta)
ids_modal_save(aio_id, form_id, field, parent, meta) ==
    field_dependent_id("_pydf-model-field-modal-save", aio_id, form_id, field, parent, meta)

\* dash_pydantic_utils.get_fullpath(parent, field): the non-empty parts joined by ":"
get_fullpath(parent, field) ==
    IF parent = "" THEN field ELSE IF field = "" THEN parent ELSE parent \o ":" \o field

-----------------------------------------------------------------------------
(* Rendering *)

\* BaseField.get_title / get_description and get_str_discriminator: the values resolved
\* from the field's schema metadata
get_title(field_info, field_name) == field_info.title
get_description(field_info) == field_info.description
get_str_discriminator(field_info) == field_info.discriminator

dmc_Text(children) == [component |-> "dmc.Text", children |-> children]
\* n * [x] for n a bool
Times(b, seq) == IF b THEN seq ELSE <<>>

simple_item(self, item, aio_id, form_id, field, parent, field_info) ==
    LET title == get_title(field_info, field)
        description == get_description(field_info)
    IN Ok([component |-> "dmc.Box",
        stack |-> Times(title # None, <<dmc_Text(title)>>)
                  \o Times(title # None /\ description # None, <<dmc_Text(description)>>),
        form |-> [item |-> item, aio_id |-> aio_id, form_id |-> form_id,
                  path |-> get_fullpath(parent, field),
                  fields_repr |-> self.fields_repr, form_layout |-> self.form_layout,
                  read_only |-> self.read_only, form_cols |-> self.form_cols,
                  excluded_fields |-> self.excluded_fields, fields_order |-> self.fields_order]])

\* a modal render that leaves the parent out of its identifiers
modal_item_NoParent(self, item, aio_id, form_id, field, parent, field_info) ==
    LET title == get_title(field_info, field)
        new_parent == get_fullpath(parent, field)
    IN Ok([component |-> "dmc.Paper",
        title |-> dmc_Text(title),
        edit |-> [component |-> "dmc.ActionIcon", id |-> ids_edit(aio_id, form_id, field, "", "")],
        modal |-> [component |-> "dmc.Modal",
                   id |-> ids_modal(aio_id, form_id, field, "", ""),
                   title |-> title,
                   form |-> [item |-> item, aio_id |-> aio_id, form_id |-> form_id,
                             path |-> new_parent,
                             fields_repr |-> self.fields_repr, form_layout |-> self.form_layout,
                             read_only |-> self.read_only, form_cols |-> self.form_cols,
                             excluded_fields |-> self.excluded_fields,
                             fields_order |-> self.fields_order],
                   save |-> [component |-> "dmc.Button",
                             id |-> ids_modal_save(aio_id, form_id, field, "", "")]]])

\* a modal render whose identifiers carry the item in their meta part
modal_item_ItemMeta(self, item, aio_id, form_id, field, parent, field_info) ==
    LET title == get_title(field_info, field)
        new_parent == get_fullpath(parent, field)
    IN Ok([component |-> "dmc.Paper",
        title |-> dmc_Text(title),
        edit |-> [component |-> "dmc.ActionIcon", id |-> ids_edit(aio_id, form_id, field, parent, item)],
        modal |-> [component |-> "dmc.Modal",
                   id |-> ids_modal(aio_id, form_id, field, parent, item),
                   title |-> title,
                   form |-> [item |-> item, aio_id |-> aio_id, form_id |-> form_id,
                             path |-> new_parent,
                             fields_repr |-> self.fields_repr, form_layout |-> self.form_layout,
                             read_only |-> self.read_only, form_cols |-> self.form_cols,
                             excluded_fields |-> self.excluded_fields,
                             fields_order |-> self.fields_order],
                   save |-> [component |-> "dmc.Button",
                             id |-> ids_modal_save(aio_id, form_id, field, parent, item)]]])

modal_item(self, item, aio_id, form_id, field, parent, field_info) ==
    LET title == get_title(field_info, field)
        new_parent == get_fullpath(parent, field)
    IN Ok([component |-> "dmc.Paper",
        title |-> dmc_Text(title),
        edit |-> [component |-> "dmc.ActionIcon", id |-> ids_edit(aio_id, form_id, field, parent, "")],
        modal |-> [component |-> "dmc.Modal",
                   id |-> ids_modal(aio_id, form_id, field, parent, ""),
                   title |-> title,
                   form |-> [item |-> item, aio_id |-> aio_id, form_id |-> form_id,
                             path |-> new_parent,
                             fields_repr |-> self.fields_repr, form_layout |-> self.form_layout,
                             read_only |-> self.read_only, form_cols |-> self.form_cols,
                             excluded_fields |-> self.excluded_fields,
                             fields_order |-> self.fields_order],
                   save |-> [component |-> "dmc.Button",
                             id |-> ids_modal_save(aio_id, form_id, field, parent, "")]]])

\* the readings of lines 190-250: the file as it stands (lines 200-201 do not compile),
\* line 200 re-indented (fac is not bound), and the body as written with fac and uuid bound
Builds == {"file", "reindented", "names_bound"}

\* an accordion render that gives its sub-form a fresh group id in every call
accordion_item_FreshAioId(self, item, aio_id, form_id, field, parent, field_info, uuid4_hex) ==
    LET title == get_title(field_info, field)
        description == get_description(field_info)
        discriminator == get_str_discriminator(field_info)
    IN IF build = "file"
       THEN Raise("IndentationError", <<"unindent does not match any outer indentation level">>)
       ELSE IF build = "reindented"
       THEN Raise("NameError", <<"name 'fac' is not defined">>)
       ELSE Ok([component |-> "fac.AntdAccordion",
                title |-> title,
                key |-> uuid4_hex,
                texts |-> Times(bool(title) /\ bool(description), <<dmc_Text(description)>>),
                form |-> [item |-> item, aio_id |-> uuid4_hex, form_id |-> form_id,
                          path |-> get_fullpath(parent, field),
                          fields_repr |-> self.fields_repr, form_layout |-> self.form_layout,
                          discriminator |-> discriminator,
                          read_only |-> self.read_only, form_cols |-> self.form_cols,
                          excluded_fields |-> self.excluded_fields,
                          fields_order |-> self.fields_order]])

\* uuid4_hex is the value uuid.uuid4().hex (line 210) returns in this call
accordion_item(self, item, aio_id, form_id, field, parent, field_info, uuid4_hex) ==
    LET title == get_title(field_info, field)
        description == get_description(field_info)
        discriminator == get_str_discriminator(field_info)
    IN IF build = "file"
       THEN Raise("IndentationError", <<"unindent does not match any outer indentation level">>)
       ELSE IF build = "reindented"
       THEN Raise("NameError", <<"name 'fac' is not defined">>)
       ELSE Ok([component |-> "fac.AntdAccordion",
                title |-> title,
                key |-> uuid4_hex,
                texts |-> Times(bool(title) /\ bool(description), <<dmc_Text(description)>>),
                form |-> [item |-> item, aio_id |-> aio_id, form_id |-> form_id,
                          path |-> get_fullpath(parent, field),
                          fields_repr |-> self.fields_repr, form_layout |-> self.form_layout,
                          discriminator |-> discriminator,
                          read_only |-> self.read_only, form_cols |-> self.form_cols,
                          excluded_fields |-> self.excluded_fields,
                          fields_order |-> self.fields_order]])

\* the methods getattr(self, f"{render_type}_item") finds
ItemMethods == {"simple_item", "modal_item", "accordion_item"}

\* a dispatch that renders the simple variant for a style it does not know
_render_Fallback(self, item, aio_id, form_id, field, parent, field_info, uuid4_hex) ==
    IF self.render_type = "accordion"
    THEN accordion_item(self, item, aio_id, form_id, field, parent, field_info, uuid4_hex)
    ELSE IF self.render_type = "modal"
    THEN modal_item(self, item, aio_id, form_id, field, parent, field_info)
    ELSE simple_item(self, item, aio_id, form_id, field, parent, field_info)

\* uuid4_hex is the value uuid.uuid4() returns if the renderer calls it
_render(self, item, aio_id, form_id, field, parent, field_info, uuid4_hex) ==
    IF self.render_type \o "_item" \notin ItemMethods
    THEN Raise("ValueError", <<"Unknown render type: " \o self.render_type>>)
    ELSE IF self.render_type = "simple"
    THEN simple_item(self, item, aio_id, form_id, field, parent, field_info)
    ELSE IF self.render_type = "modal"
    THEN modal_item(self, item, aio_id, form_id, field, parent, field_info)
    ELSE accordion_item(self, item, aio_id, form_id, field, parent, field_info, uuid4_hex)

-----------------------------------------------------------------------------
(* Clientside callbacks *)

MATCH == "<MATCH>"
ALL == "<ALL>"
IdKeys == {"component", "aio_id", "form_id", "field", "parent", "meta"}

\* pydf.syncTrue and pydf.syncFalse, the clientside functions: the value for the output
syncTrue(n_clicks) == TRUE
syncFalse(n_clicks) == FALSE

\* an opening callback whose output addresses the modals of every field
OpenCallback_AllFields ==
    [function |-> "syncTrue",
     output |-> [id |-> ids_modal(MATCH, MATCH, ALL, MATCH, MATCH), property |-> "opened"],
     input |-> [id |-> ids_edit(MATCH, MATCH, MATCH, MATCH, MATCH), property |-> "n_clicks"]]

\* Open a model modal when editing an item
OpenCallback ==
    [function |-> "syncTrue",
     output |-> [id |-> ids_modal(MATCH, MATCH, MATCH, MATCH, MATCH), property |-> "opened"],
     input |-> [id |-> ids_edit(MATCH, MATCH, MATCH, MATCH, MATCH), property |-> "n_clicks"]]

\* a closing callback registered with the opening function
CloseCallback_SyncTrue ==
    [function |-> "syncTrue",
     output |-> [id |-> ids_modal(MATCH, MATCH, MATCH, MATCH, MATCH), property |-> "opened"],
     input |-> [id |-> ids_modal_save(MATCH, MATCH, MATCH, MATCH, MATCH), property |-> "n_clicks"]]

\* Close a model modal when saving an item
CloseCallback ==
    [function |-> "syncFalse",
     output |-> [id |-> ids_modal(MATCH, MATCH, MATCH, MATCH, MATCH), property |-> "opened"],
     input |-> [id |-> ids_modal_save(MATCH, MATCH, MATCH, MATCH, MATCH), property |-> "n_clicks"]]

Callbacks == {OpenCallback, CloseCallback}

\* a component id fits a wildcard pattern
Fits(pattern, id) == \A k \in IdKeys : pattern[k] \in {MATCH, ALL} \/ pattern[k] = id[k]

\* callback cb writes component o when the component `trigger` changes its input
\* property: o fits the output pattern and agrees with the trigger on every key that is
\* MATCH in the output
Writes(cb, trigger, o) ==
    /\ Fits(cb.input.id, trigger)
    /\ Fits(cb.output.id, o)
    /\ \A k \in IdKeys : cb.output.id[k] = MATCH => o[k] = trigger[k]

Call(cb, n_clicks) == IF cb.function = "syncTrue" THEN syncTrue(n_clicks) ELSE syncFalse(n_clicks)

\* the page's props after the callbacks ran for a change of trigger's n_clicks to n
Dispatch(d, trigger, n) ==
    [i \in DOMAIN d |->
        IF \E cb \in Callbacks : Writes(cb, trigger, i)
        THEN [d[i] EXCEPT !.opened = Call(CHOOSE cb \in Callbacks : Writes(cb, trigger, i), n)]
        ELSE d[i]]

-----------------------------------------------------------------------------
(* Inputs *)

CustomRepr == [type |-> "dict", layout |-> "", arg |-> "name:Text"]
SecretList == [type |-> "list", layout |-> "", arg |-> "secret"]
OrderList == [type |-> "list", layout |-> "", arg |-> "visible,secret"]

LayoutInputs == {Absent, None} \cup FormLayouts \cup LayoutDicts \cup OtherValues

Kwargs ==
    [render_type     : {NotPassed, "modal", "simple", "tabs"},
     fields_repr     : {Absent, None, CustomRepr},
     form_layout     : LayoutInputs,
     form_cols       : {0, 2},
     excluded_fields : {Absent, SecretList},
     fields_order    : {Absent},
     read_only       : BOOLEAN,
     sections        : LayoutInputs]

NoKwargs ==
    [render_type |-> NotPassed, fields_repr |-> Absent, form_layout |-> Absent, form_cols |-> 0,
     excluded_fields |-> Absent, fields_order |-> Absent, read_only |-> FALSE, sections |-> Absent]

-----------------------------------------------------------------------------
(* State *)

NoResult == Raise("", <<>>)

\* a caller is about to construct ModelField(**kw) for some keyword arguments
InitConfig ==
    /\ init_call \in [called : {FALSE}, kwargs : Kwargs, result : {NoResult}]
    /\ model_field = None
    /\ prev = None
    /\ last = None
    /\ page = {}
    /\ dom = None
    /\ event = None
    /\ build = "file"

\* ModelField(**kwargs) runs: validation, then model_post_init
Construct ==
    /\ ~init_call.called
    /\ init_call' = [init_call EXCEPT !.called = TRUE, !.result = ModelField(init_call.kwargs)]
    /\ UNCHANGED <<model_field, prev, last, page, dom, event, build>>

NextConfig == Construct

SpecConfig == InitConfig /\ [][NextConfig]_vars

-----------------------------------------------------------------------------
(* Rendering: a field object is constructed, reconfigured and rendered *)

\* the values uuid.uuid4().hex can return
UuidSpace == {"3f2a9c1e", "b07d44e2"}

Items == {"item1", "item2"}
AioIds == {"aio1", "aio2"}
FormIds == {"form1", "form2"}
Fields == {"address", "home"}
Parents == {"", "user"}
FieldInfos ==
    {[title |-> Str("Address"), description |-> Str("Postal address"), discriminator |-> None],
     [title |-> None, description |-> Str("Postal address"), discriminator |-> Str("kind")]}

RenderArgs ==
    [item : Items, aio_id : {"aio1"}, form_id : {"form1"}, field : {"address"}, parent : Parents,
     field_info : FieldInfos]

\* the keyword arguments the rendered field objects are constructed from
RenderKwargs ==
    {[NoKwargs EXCEPT !.render_type = r] : r \in {NotPassed, "modal", "simple"}}
    \cup
    {[render_type |-> r, fields_repr |-> CustomRepr, form_layout |-> l, form_cols |-> 2,
      excluded_fields |-> SecretList, fields_order |-> OrderList, read_only |-> TRUE,
      sections |-> Absent] :
        r \in {NotPassed, "modal", "simple"},
        l \in {[type |-> "dict", layout |-> "tabs", arg |-> "s1"]}}

InitRender ==
    /\ init_call = [called |-> FALSE, kwargs |-> NoKwargs, result |-> NoResult]
    /\ model_field = None
    /\ prev = None
    /\ last = None
    /\ page = {}
    /\ dom = None
    /\ event = None
    /\ build \in Builds

\* model_field = ModelField(**kw)
NewField(kw) ==
    /\ ModelField(kw).status = "ok"
    /\ model_field' = ModelField(kw).value
    /\ UNCHANGED <<init_call, prev, last, page, dom, event, build>>

\* model_field.render_type = s: an attribute assignment, which the Literal annotation
\* does not check
SetRenderType(s) ==
    /\ model_field # None
    /\ model_field' = [model_field EXCEPT !.render_type = s]
    /\ UNCHANGED <<init_call, prev, last, page, dom, event, build>>

\* model_field._render(**a), with k the value uuid4 returns if it is called
Render(a, k) ==
    /\ model_field # None
    /\ prev' = last
    /\ last' = [self |-> model_field, args |-> a,
                result |-> _render(model_field, a.item, a.aio_id, a.form_id, a.field,
                                   a.parent, a.field_info, k)]
    /\ UNCHANGED <<init_call, model_field, page, dom, event, build>>

NextRender ==
    \/ \E kw \in RenderKwargs : NewField(kw)
    \/ \E s \in RenderTypes \cup {"tabs"} : SetRenderType(s)
    \/ \E a \in RenderArgs, k \in UuidSpace : Render(a, k)

SpecRender == InitRender /\ [][NextRender]_vars

-----------------------------------------------------------------------------
(* The page: modal variants rendered side by side, and the clicks on them *)

MaxInstances == 2
MaxClicks == 3

\* the tuples of the nested fields of a page: a field and those that differ from it in
\* one part
BaseTuple == [aio_id |-> "aio1", form_id |-> "form1", field |-> "address", parent |-> ""]
Tuples ==
    {t \in [aio_id : AioIds, form_id : FormIds, field : Fields, parent : Parents] :
        Cardinality({k \in DOMAIN t : t[k] # BaseTuple[k]}) <= 1}

RECURSIVE SumClicks(_, _)
SumClicks(d, ids) ==
    IF ids = {} THEN 0
    ELSE LET i == CHOOSE x \in ids : TRUE IN d[i].n_clicks + SumClicks(d, ids \ {i})
TotalClicks(d) == SumClicks(d, DOMAIN d)
TupleOf(a) == [aio_id |-> a.aio_id, form_id |-> a.form_id, field |-> a.field, parent |-> a.parent]

\* the field object of the modal variants on the page
ModalField == ModelField([NoKwargs EXCEPT !.render_type = "modal"]).value
TheFieldInfo == [title |-> Str("Address"), description |-> None, discriminator |-> None]

NoEvent == [kind |-> "", id |-> ids_edit("", "", "", "", "")]

InitPage ==
    /\ init_call = [called |-> FALSE, kwargs |-> NoKwargs, result |-> NoResult]
    /\ model_field = ModalField
    /\ prev = None
    /\ last = None
    /\ page = {}
    /\ dom = [i \in {} |-> [n_clicks |-> 0, opened |-> FALSE]]
    /\ event = NoEvent
    /\ build = "file"

\* the props the client holds for the three controls of a rendered modal variant; a
\* dmc.Modal rendered without "opened" is closed, a button without "n_clicks" has none
Mounted(ui) ==
    [i \in {ui.edit.id, ui.modal.id, ui.modal.save.id} |->
        [n_clicks |-> 0, opened |-> FALSE]]

\* one more nested field is rendered as a modal variant, under a tuple not yet on the page
Mount(t, item) ==
    /\ Cardinality(page) < MaxInstances
    /\ \A u \in page : u.tuple # t
    /\ LET ui == modal_item(model_field, item, t.aio_id, t.form_id, t.field, t.parent,
                            TheFieldInfo).value
       IN /\ page' = page \cup {[tuple |-> t, ui |-> ui]}
          /\ dom' = [i \in DOMAIN dom \cup DOMAIN Mounted(ui) |->
                        IF i \in DOMAIN dom THEN dom[i] ELSE Mounted(ui)[i]]
    /\ UNCHANGED <<init_call, model_field, prev, last, event, build>>

\* the user clicks the control with identifier id: its n_clicks grows, and the callbacks
\* with a matching Input run
Click(kind, id) ==
    /\ TotalClicks(dom) < MaxClicks
    /\ LET n == dom[id].n_clicks + 1
       IN /\ dom' = Dispatch([dom EXCEPT ![id].n_clicks = n], id, n)
          /\ event' = [kind |-> kind, id |-> id]
    /\ UNCHANGED <<init_call, model_field, prev, last, page, build>>

EditClick(u) == Click("edit", u.ui.edit.id)
SaveClick(u) == Click("save", u.ui.modal.save.id)

NextPage ==
    \/ \E t \in Tuples, item \in {"item1"} : Mount(t, item)
    \/ \E u \in page : EditClick(u)
    \/ \E u \in page : SaveClick(u)

SpecPage == InitPage /\ [][NextPage]_vars

-----------------------------------------------------------------------------
(* Claims on construction *)

kwfl == init_call.kwargs.form_layout
kwsections == init_call.kwargs.sections
Constructed == init_call.called /\ init_call.result.status = "ok"
RenderTypeAccepted == init_call.kwargs.render_type \in RenderTypes \cup {NotPassed}
LayoutError ==
    /\ init_call.result.status = "error"
    /\ init_call.result.exc = "ValidationError"
    /\ \E i \in DOMAIN init_call.result.msg :
           /\ i % 2 = 1
           /\ init_call.result.msg[i] = "form_layout"
           /\ init_call.result.msg[i + 1] =
                  "Value error, form_layout must be a FormLayout or a dict that can be converted to a FormLayout"

\* what C3 says of the validator: a layout object or an absent value is kept, a mapping
\* is loaded, and any other type fails the construction with an error on form_layout
ValidatorContract ==
    /\ kwfl.type \notin {"FormLayout", "NoneType", "dict", "absent"} => LayoutError
    /\ RenderTypeAccepted =>
        /\ kwfl.type \in {"FormLayout", "NoneType"} =>
               Constructed /\ (kwsections \in {Absent, None} => init_call.result.value.form_layout = kwfl)
        /\ kwfl.type = "dict" =>
               Constructed /\ init_call.result.value.form_layout = FormLayout_load(kwfl)

\* C3 as stated: a layout object or an absent value is kept, a mapping is loaded, any
\* other type fails the construction, and every constructed configuration's layout is
\* absent or a layout object.
C3_LayoutAlwaysValidated ==
    init_call.called =>
        /\ ValidatorContract
        /\ Constructed =>
               init_call.result.value.form_layout.type \in {"NoneType", "FormLayout"}

\* C3 amended: as C3, except that a constructed configuration's layout is absent, a
\* layout object, or the legacy "sections" value adopted as it is by model_post_init.
C3_LayoutValidatedOrLegacy ==
    init_call.called =>
        /\ ValidatorContract
        /\ Constructed =>
               \/ init_call.result.value.form_layout.type \in {"NoneType", "FormLayout"}
               \/ /\ kwfl \in {Absent, None}
                  /\ init_call.result.value.form_layout = kwsections

\* a construction was refused for the type of its layout
C3_Witness ==
    init_call.called /\ kwfl.type = "str" /\ LayoutError

\* C4: without an explicit layout and with a non-null legacy "sections" extra, the
\* effective layout is the legacy value; an explicit layout is not replaced by it.
C4_LegacySectionsAdopted ==
    Constructed =>
        /\ kwfl \in {Absent, None} /\ kwsections \notin {Absent, None} =>
               init_call.result.value.form_layout = kwsections
        /\ kwfl \notin {Absent, None} =>
               init_call.result.value.form_layout =
                   (IF kwfl.type = "dict" THEN FormLayout_load(kwfl) ELSE kwfl)

\* a configuration was constructed from a legacy "sections" value alone
C4_Witness ==
    /\ Constructed /\ kwfl = Absent /\ kwsections.type = "FormLayout"
    /\ init_call.result.value.form_layout = kwsections

\* C5: constructing with a raw mapping gives the outcome of constructing with the layout
\* object loaded from it, and validating a validated layout returns it unchanged.
C5_NormalizationIdempotent ==
    init_call.called /\ kwfl.type = "dict" =>
        /\ init_call.result = ModelField([init_call.kwargs EXCEPT !.form_layout = FormLayout_load(kwfl)])
        /\ Constructed =>
               LET v == IF kwsections \in {Absent, None} THEN init_call.result.value.form_layout
                        ELSE FormLayout_load(kwfl)
               IN ModelField([init_call.kwargs EXCEPT !.form_layout = v]) = init_call.result

\* a configuration was constructed from a raw mapping
C5_Witness ==
    /\ Constructed /\ kwfl.type = "dict" /\ kwsections = Absent
    /\ init_call.result.value.form_layout.type = "FormLayout"

-----------------------------------------------------------------------------
(* Claims on rendering *)

IsCall(c) == c # None
RenderedOk(c) == IsCall(c) /\ c.result.status = "ok"
IsModalRender(c) == RenderedOk(c) /\ c.result.value.component = "dmc.Paper"
\* the embedded ModelForm call of a rendered variant
SubForm(ui) == IF ui.component = "dmc.Paper" THEN ui.modal.form ELSE ui.form
ControlIds(ui) == <<ui.edit.id, ui.modal.id, ui.modal.save.id>>

\* C2: a render call on a configuration whose render style is none of accordion, modal,
\* simple raises a ValueError naming the style and returns no UI description.
C2_UnknownStyleFails ==
    IsCall(last) /\ last.self.render_type \notin RenderTypes =>
        /\ last.result.status = "error"
        /\ last.result.exc = "ValueError"
        /\ last.result.msg = <<"Unknown render type: " \o last.self.render_type>>
        /\ last.result.value = None

\* a render call was made on a configuration of style "tabs"
C2_Witness ==
    IsCall(last) /\ last.self.render_type = "tabs" /\ last.result.status = "error"

\* C7: two modal renders with the same (group id, form id, field, parent) give the same
\* edit, modal and save identifiers, whatever the items, the configurations and the
\* calls before them.
C7_IdsDeterministic ==
    /\ IsModalRender(prev) /\ IsModalRender(last)
    /\ TupleOf(prev.args) = TupleOf(last.args)
    => ControlIds(prev.result.value) = ControlIds(last.result.value)

\* two modal renders of the same tuple with different items and configurations
C7_Witness ==
    /\ IsModalRender(prev) /\ IsModalRender(last)
    /\ TupleOf(prev.args) = TupleOf(last.args)
    /\ prev.args.item # last.args.item
    /\ prev.self # last.self
    /\ ControlIds(prev.result.value) = ControlIds(last.result.value)

\* C8: in each of the three variants the render call builds the sub-form with the
\* configuration's field overrides, layout, read-only flag, column count, exclusions and
\* ordering as they are, and with the full path of (parent, field).
C8_ConfigPassedThrough ==
    IsCall(last) /\ last.self.render_type \in RenderTypes =>
        /\ RenderedOk(last)
        /\ LET f == SubForm(last.result.value)
               c == last.self
           IN /\ f.fields_repr = c.fields_repr
              /\ f.form_layout = c.form_layout
              /\ f.read_only = c.read_only
              /\ f.form_cols = c.form_cols
              /\ f.excluded_fields = c.excluded_fields
              /\ f.fields_order = c.fields_order
              /\ f.path = get_fullpath(last.args.parent, last.args.field)

SameInputs == IsCall(prev) /\ IsCall(last) /\ prev.self = last.self /\ prev.args = last.args
IsAccordion(r) == r.status = "ok" /\ r.value.component = "fac.AntdAccordion"
\* the outcome of a render call with the accordion panel's key left out
WithoutKey(r) == IF IsAccordion(r) THEN [r EXCEPT !.value.key = ""] ELSE r

-----------------------------------------------------------------------------
(* Claims on the page *)

Opened(u) == dom[u.ui.modal.id].opened
EditClicked(u) == dom'[u.ui.edit.id].n_clicks # dom[u.ui.edit.id].n_clicks
SaveClicked(u) == dom'[u.ui.modal.save.id].n_clicks # dom[u.ui.modal.save.id].n_clicks

\* C1: a modal is closed when it is rendered and stays so until a click on its instance,
\* is open right after every edit-click on its instance and closed right after every
\* save-click on it.
C1_ModalStateMachine ==
    /\ [](\A u \in page : Opened(u) \in BOOLEAN)
    /\ [][ /\ \A u \in page' \ page : dom'[u.ui.modal.id].opened = FALSE
           /\ \A u \in page :
                  /\ EditClicked(u) => dom'[u.ui.modal.id].opened = TRUE
                  /\ SaveClicked(u) => dom'[u.ui.modal.id].opened = FALSE
                  /\ page' # page => dom'[u.ui.modal.id].opened = Opened(u) ]_vars

\* a save-click has closed a modal that an edit-click had opened
C1_Witness ==
    \E u \in page :
        /\ event = [kind |-> "save", id |-> u.ui.modal.save.id]
        /\ dom[u.ui.edit.id].n_clicks >= 1
        /\ ~Opened(u)

\* C6: the edit, modal and save identifiers of the modal variants on a page are pairwise
\* distinct, across the tuples and within each.
C6_IdsDistinct ==
    \A u, v \in page : \A i, j \in 1..3 :
        (u.tuple # v.tuple \/ i # j) => ControlIds(u.ui)[i] # ControlIds(v.ui)[j]

\* two modal variants whose tuples differ in the parent alone are on the page
C6_Witness ==
    \E u, v \in page :
        /\ u.tuple # v.tuple
        /\ [u.tuple EXCEPT !.parent = ""] = [v.tuple EXCEPT !.parent = ""]

\* C10: a click on one instance leaves the open state of every other instance's modal
\* unchanged.
C10_OtherModalsUnchanged ==
    [][ \A u, v \in page :
            (EditClicked(u) \/ SaveClicked(u)) /\ u.tuple # v.tuple
            => dom'[v.ui.modal.id].opened = Opened(v) ]_vars

\* after an edit-click on one of two instances its modal is open and the other's closed
C10_Witness ==
    \E u, v \in page :
        /\ u.tuple # v.tuple
        /\ event = [kind |-> "edit", id |-> u.ui.edit.id]
        /\ Opened(u) /\ ~Opened(v)
        /\ u.tuple.field # v.tuple.field

====
